---- MODULE Spec2Model ----
(***************************************************************************)
(* Genetic-algorithm exam scheduler of src/main.py: the CourseExam /        *)
(* Schedule representation, Schedule.calculate_fitness, the operators of    *)
(* GeneticScheduler (selection, crossover, mutate), the evolve loop and     *)
(* Schedule.to_timetable_format as called by generate_schedule, and the     *)
(* helpers generate_timeslots and format_course_name.                       *)
(*                                                                         *)
(* Spec is generate_schedule / evolve; SpecFit is calculate_fitness and     *)
(* to_timetable_format on one Schedule; SpecOps is crossover and mutate on  *)
(* a pair of parents; SpecSlots is generate_timeslots; SpecGen is the       *)
(* genetic loop of POST /generate in src/routers/scheduler.py.              *)
(*                                                                         *)
(* Courses, sections, rooms, dates and timeslots are opaque identifiers,    *)
(* modelled as 1..n; None is 0.  Fitness is a Python float; it is kept      *)
(* here as the exact rational fitness * Den(dates), Den = len(dates)^3,     *)
(* so that the date-distribution term stays an integer.                     *)
(***************************************************************************)
EXTENDS Integers, Sequences, FiniteSets, TLC

\* ---------------------------------------------------------------- bounds
MaxCourses == 3
MaxSections == 2
MaxRooms == 2
MaxDates == 2
MaxSlots == 2
MaxPop == 4
MaxGen == 2
\* evolve is explored for inputs whose population space
\* (number of candidate schedules ^ population_size) is at most this
MaxPopSpace == 64
\* calculate_fitness alone is explored for inputs with at most this many
\* candidate schedules
MaxFitSpace == 512
\* most pairs of parents any one configuration of SpecOps may have
MaxOpsSpace == 512
\* generate_timeslots alone: start_time and end_time are on the half hours
\* 00:00 .. MaxHour:30, the slot duration is 1..MaxDurTicks quarters of an hour
MaxHour == 23
MaxDurTicks == 8
\* routers/scheduler.py: most subjects of a query, largest teacher id, most
\* exam dicts of an initial population, and the most initial populations any
\* one configuration may have
MaxSubjects == 2
MaxTeachers == 1
MaxDicts == 4
MaxGenSpace == 16

None == 0

VARIABLES
    courses,          \* ExamRequest.courses
    sections,         \* ExamRequest.sections
    rooms,            \* ExamRequest.rooms
    dates,            \* [d["date"] for d in generate_dates(...)]
    timeslots,        \* generate_timeslots(...)
    window,           \* start_time, end_time (minutes after 00:00) and slot duration
    population_size,  \* GeneticScheduler.population_size
    generations,      \* GeneticScheduler.generations
    course_exams,     \* the CourseExam list built by generate_schedule
    population,       \* GeneticScheduler.population
    best_schedule,    \* GeneticScheduler.best_schedule: <<>> is None, else <<schedule>>
    best_generation,  \* GeneticScheduler.best_generation
    generation,       \* loop variable of evolve
    new_population,   \* local of evolve
    pc,               \* position in generate_schedule / evolve
    error,            \* exception that left evolve, "none" if none
    early,            \* TRUE once the early-stop break was taken
    result,           \* <<>> or <<dict returned by to_timetable_format>>
    produced,         \* history: fitness of every Schedule that was ever a member of self.population
    subjects,         \* routers/scheduler.py: teacher_id of each subject of the query
    exam_dicts,       \* routers/scheduler.py: the exam dicts, by object identity
    next_gen          \* routers/scheduler.py: local of generate_exam_schedule

vars == <<courses, sections, rooms, dates, timeslots, window, population_size, generations,
          course_exams, population, best_schedule, best_generation, generation,
          new_population, pc, error, early, result, produced, subjects, exam_dicts,
          next_gen>>

\* the state of routers/scheduler.py beyond what it shares by name with main.py
router_state == <<subjects, exam_dicts, next_gen>>

inputs == <<courses, sections, rooms, dates, timeslots, window, population_size, generations,
            course_exams>>

\* ---------------------------------------------------------------- helpers
Range(s) == {s[i] : i \in 1..Len(s)}

Min(a, b) == IF a < b THEN a ELSE b

Max(a, b) == IF a > b THEN a ELSE b

Ids(n) == [i \in 1..n |-> i]

RECURSIVE SumSeq(_)
SumSeq(s) == IF s = <<>> THEN 0 ELSE Head(s) + SumSeq(Tail(s))

RECURSIVE Pow(_, _)
Pow(b, e) == IF e = 0 THEN 1 ELSE b * Pow(b, e - 1)

\* Python truthiness of a date / timeslot value (None is falsy, identifiers are
\* non-empty strings)
Truthy(x) == x # None

\* ---------------------------------------------------------------- CourseExam
CourseExam(course, secs) ==
    [course |-> course, sections |-> secs, date |-> None, timeslot |-> None, rooms |-> <<>>]

\* generate_schedule: one CourseExam per course, each with a copy of all sections
BuildCourseExams(cs, secs) == [i \in 1..Len(cs) |-> CourseExam(cs[i], secs)]

\* ---------------------------------------------------------------- fitness
\* the (date, timeslot, room) keys in the order the nested loops visit them
RECURSIVE SlotKeys(_)
SlotKeys(exams) ==
    IF exams = <<>> THEN <<>>
    ELSE LET ce == Head(exams) IN
         (IF Truthy(ce.date) /\ Truthy(ce.timeslot)
            THEN [i \in 1..Len(ce.rooms) |-> <<ce.date, ce.timeslot, ce.rooms[i]>>]
            ELSE <<>>) \o SlotKeys(Tail(exams))

RECURSIVE CountConflictsOncePerKey(_, _, _)
CountConflictsOncePerKey(keys, room_usage, hit) ==
    IF keys = <<>> THEN Cardinality(hit)
    ELSE IF Head(keys) \in room_usage
           THEN CountConflictsOncePerKey(Tail(keys), room_usage, hit \cup {Head(keys)})
           ELSE CountConflictsOncePerKey(Tail(keys), room_usage \cup {Head(keys)}, hit)

ConflictsDistinct(exams) == CountConflictsOncePerKey(SlotKeys(exams), {}, {})

RECURSIVE CountConflicts(_, _)
CountConflicts(keys, room_usage) ==
    IF keys = <<>> THEN 0
    ELSE IF Head(keys) \in room_usage
           THEN 1 + CountConflicts(Tail(keys), room_usage)
           ELSE CountConflicts(Tail(keys), room_usage \cup {Head(keys)})

Conflicts(exams) == CountConflicts(SlotKeys(exams), {})

ConflictPenalty(exams) == Conflicts(exams) * 100

RoomShortagePenalty(exams) ==
    SumSeq([i \in 1..Len(exams) |->
              IF Len(exams[i].rooms) < Len(exams[i].sections)
                THEN (Len(exams[i].sections) - Len(exams[i].rooms)) * 50
                ELSE 0])

\* the dict date_distribution: only dates that carry an exam are keys
DateDistribution(exams) ==
    [d \in {exams[i].date : i \in {j \in 1..Len(exams) : Truthy(exams[j].date)}} |->
        Cardinality({i \in 1..Len(exams) : exams[i].date = d})]

RECURSIVE SumOver(_, _)
SumOver(f, S) ==
    IF S = {} THEN 0
    ELSE LET x == CHOOSE y \in S : TRUE IN f[x] + SumOver(f, S \ {x})

\* denominator of the exact fitness value
Den(ds) == IF Len(ds) > 0 THEN Pow(Len(ds), 3) ELSE 1

\* distribution_penalty * Den(ds):
\*   variance = sum((count - n/D)^2 for count in date_distribution.values()) / D
\*   distribution_penalty = variance * 2
DistributionPenaltyNum(exams, ds) ==
    IF Len(ds) > 0
      THEN LET dd == DateDistribution(exams)
               D  == Len(ds)
               n  == Len(exams)
               sq == [d \in DOMAIN dd |-> (dd[d] * D - n) * (dd[d] * D - n)]
           IN 2 * SumOver(sq, DOMAIN dd)
      ELSE 0

RoomEfficiencyBonusStrict(exams) ==
    SumSeq([i \in 1..Len(exams) |->
              IF Len(exams[i].sections) < Len(exams[i].rooms) THEN 10 ELSE 0])

RoomEfficiencyBonus(exams) ==
    SumSeq([i \in 1..Len(exams) |->
              IF Len(exams[i].sections) <= Len(exams[i].rooms) THEN 10 ELSE 0])

\* Schedule.calculate_fitness, times Den(ds)
calculate_fitness(exams, ds) ==
    ((1000 + RoomEfficiencyBonus(exams)) - ConflictPenalty(exams)
        - RoomShortagePenalty(exams)) * Den(ds)
    - DistributionPenaltyNum(exams, ds)

\* Schedule.__init__: the cached fitness starts at 0.0
Schedule(exams) == [course_exams |-> exams, fitness |-> 0]

Unscored(exams, ds) == Schedule(exams)

\* a Schedule whose cached fitness has just been computed
Scored(exams, ds) == [course_exams |-> exams, fitness |-> calculate_fitness(exams, ds)]

\* ---------------------------------------------------------------- random draws
RandomChoices(rs, k) == [1..k -> Range(rs)]

\* random.sample(rs, k): every list of k pairwise distinct elements of rs
RandomSample(rs, k) ==
    {s \in [1..k -> Range(rs)] : \A i, j \in 1..k : i # j => s[i] # s[j]}

\* rooms drawn for one CourseExam by randomize and by mutate
RoomDraws(ce, rs) == RandomSample(rs, Min(Len(ce.sections), Len(rs)))

\* Schedule.randomize: random.choice of an empty list raises IndexError
RandomizeRaises(exams, ds, ts) == exams # <<>> /\ (ds = <<>> \/ ts = <<>>)

RandomizedExam(ce, ds, ts, rs) ==
    {[ce EXCEPT !.date = d, !.timeslot = t, !.rooms = r] :
        d \in Range(ds), t \in Range(ts), r \in RoomDraws(ce, rs)}

\* every outcome of Schedule.randomize on a copy of exams
RECURSIVE Randomize(_, _, _, _)
Randomize(exams, ds, ts, rs) ==
    IF exams = <<>> THEN {<<>>}
    ELSE {<<h>> \o t : h \in RandomizedExam(Head(exams), ds, ts, rs),
                       t \in Randomize(Tail(exams), ds, ts, rs)}

\* ---------------------------------------------------------------- operators
\* max(pop, key=fitness): the first member of maximal fitness
IsMaxAt(pop, i) ==
    /\ \A j \in 1..Len(pop) : pop[j].fitness <= pop[i].fitness
    /\ \A j \in 1..(i - 1) : pop[j].fitness < pop[i].fitness

MaxByFitness(pop) == pop[CHOOSE i \in 1..Len(pop) : IsMaxAt(pop, i)]

\* sorted(pop, key=fitness, reverse=True): stable, descending
RECURSIVE SortedDesc(_)
SortedDesc(pop) ==
    IF pop = <<>> THEN <<>>
    ELSE LET i == CHOOSE k \in 1..Len(pop) : IsMaxAt(pop, k)
         IN <<pop[i]>> \o SortedDesc(SubSeq(pop, 1, i - 1) \o SubSeq(pop, i + 1, Len(pop)))

\* "self.best_schedule is None or current_best.fitness > self.best_schedule.fitness"
BeatsIfWorse(current_best, best) ==
    best = <<>> \/ current_best.fitness < best[1].fitness

Beats(current_best, best) ==
    best = <<>> \/ current_best.fitness > best[1].fitness

\* "current_best.fitness >= 1000"
EarlyStopReachedStrict(current_best, ds) == current_best.fitness > 1000 * Den(ds)

EarlyStopReachedLow(current_best, ds) == current_best.fitness >= 900 * Den(ds)

EarlyStopReached(current_best, ds) == current_best.fitness >= 1000 * Den(ds)

EliteCount(psize) == Max(1, psize \div 10)

\* tournament(): the positions that can win, i.e. the fittest of some sample of
\* 3 distinct members (any of the tied fittest, as the sample order is random)
TournamentWinners(pop) ==
    {i \in 1..Len(pop) :
        \E T \in SUBSET (1..Len(pop)) :
            /\ Cardinality(T) = 3
            /\ i \in T
            /\ \A j \in T : pop[j].fitness <= pop[i].fitness}

\* random.sample(self.population, 3) raises ValueError on a smaller population
SelectionRaises(pop) == Len(pop) < 3

\* random.randint(1, n - 1) raises ValueError on an empty range
CrossoverRaises(exams) == Len(exams) - 1 < 1

CrossChildSliced(own, other, crossover_point) ==
    SubSeq(own, 1, crossover_point - 1) \o SubSeq(other, crossover_point + 1, Len(other))

CrossChildFromCutPosition(own, other, crossover_point) ==
    [i \in 1..Len(own) |->
        IF i >= crossover_point
          THEN [own[i] EXCEPT !.date = other[i].date,
                              !.timeslot = other[i].timeslot,
                              !.rooms = other[i].rooms]
          ELSE own[i]]

\* the course_exams of one child: for i in range(crossover_point, len) the
\* other parent's date, timeslot and rooms, own[i] before the cut.  Python
\* indexes from 0, sequences here from 1: list index i is position i + 1.
CrossChild(own, other, crossover_point) ==
    [i \in 1..Len(own) |->
        IF i - 1 >= crossover_point
          THEN [own[i] EXCEPT !.date = other[i].date,
                              !.timeslot = other[i].timeslot,
                              !.rooms = other[i].rooms]
          ELSE own[i]]

\* GeneticScheduler.crossover for a given cut: <<child1_exams, child2_exams>>
crossover(parent1, parent2, crossover_point) ==
    <<CrossChild(parent1.course_exams, parent2.course_exams, crossover_point),
      CrossChild(parent2.course_exams, parent1.course_exams, crossover_point)>>

MutatedExamOffByOne(ce, ds, ts, rs) ==
    {ce}
    \cup {[ce EXCEPT !.date = d] : d \in 0..(Len(ds) - 1)}
    \cup {[ce EXCEPT !.timeslot = t] : t \in Range(ts)}
    \cup {[ce EXCEPT !.rooms = r] : r \in RoomDraws(ce, rs)}

MutatedExamDateAndSlot(ce, ds, ts, rs) ==
    {ce}
    \cup {[ce EXCEPT !.date = d, !.timeslot = t] : d \in Range(ds), t \in Range(ts)}
    \cup {[ce EXCEPT !.rooms = r] : r \in RoomDraws(ce, rs)}

\* what mutate can do to one CourseExam: nothing, a new date, a new timeslot
\* or a new room sample
MutatedExam(ce, ds, ts, rs) ==
    {ce}
    \cup {[ce EXCEPT !.date = d] : d \in Range(ds)}
    \cup {[ce EXCEPT !.timeslot = t] : t \in Range(ts)}
    \cup {[ce EXCEPT !.rooms = r] : r \in RoomDraws(ce, rs)}

\* every outcome of GeneticScheduler.mutate on exams
RECURSIVE mutate(_, _, _, _)
mutate(exams, ds, ts, rs) ==
    IF exams = <<>> THEN {<<>>}
    ELSE {<<h>> \o t : h \in MutatedExam(Head(exams), ds, ts, rs),
                       t \in mutate(Tail(exams), ds, ts, rs)}

\* ---------------------------------------------------------------- generate_timeslots
\* Times are minutes after 00:00 of the day strptime("%H:%M") puts them on;
\* text is a sequence of one-character strings.
Digit(n) == <<"0", "1", "2", "3", "4", "5", "6", "7", "8", "9">>[n + 1]

TwoDigits(n) == <<Digit(n \div 10), Digit(n % 10)>>

\* strftime("%I:%M %p")
strftime12h(t) ==
    LET hour == (t \div 60) % 24
        hour12 == IF hour % 12 = 0 THEN 12 ELSE hour % 12
    IN TwoDigits(hour12) \o <<":">> \o TwoDigits(t % 60) \o <<" ">>
       \o (IF hour < 12 THEN <<"A", "M">> ELSE <<"P", "M">>)

\* str.lstrip('0')
RECURSIVE lstrip0(_)
lstrip0(text) ==
    IF text # <<>> /\ Head(text) = "0" THEN lstrip0(Tail(text)) ELSE text

\* f"{start_12h} - {end_12h}"
SlotText(start, slot_end) ==
    lstrip0(strftime12h(start)) \o <<" ", "-", " ">> \o lstrip0(strftime12h(slot_end))

SlotFitsBeforeEnd(start, end, duration) == start + duration < end

\* the loop condition: start + timedelta(minutes=duration) <= end
SlotFits(start, end, duration) == start + duration <= end

RECURSIVE generate_timeslots(_, _, _)
generate_timeslots(start, end, duration) ==
    IF SlotFits(start, end, duration)
      THEN <<SlotText(start, start + duration)>>
           \o generate_timeslots(start + duration, end, duration)
      ELSE <<>>

\* generate_schedule calls generate_timeslots with the default duration of 90;
\* a request from 07:00 that has room for exactly nT slots
SchoolHours(nT) == [start_time |-> 420, end_time |-> 420 + 90 * nT, duration |-> 90]

\* the timeslots of a request, named by their position in the generated list
TimeslotIds(w) == Ids(Len(generate_timeslots(w.start_time, w.end_time, w.duration)))

\* ---------------------------------------------------------------- formatter
\* Text is a sequence of one-character strings.
LowerCase == <<"a", "b", "c", "d", "e", "f", "g", "h", "i", "j", "k", "l", "m", "n", "o", "p", "q", "r", "s", "t", "u", "v", "w", "x", "y", "z">>

UpperCase == <<"A", "B", "C", "D", "E", "F", "G", "H", "I", "J", "K", "L", "M", "N", "O", "P", "Q", "R", "S", "T", "U", "V", "W", "X", "Y", "Z">>

\* str.upper
upper(text) ==
    [k \in 1..Len(text) |->
        IF \E a \in 1..Len(LowerCase) : LowerCase[a] = text[k]
          THEN UpperCase[CHOOSE a \in 1..Len(LowerCase) : LowerCase[a] = text[k]]
          ELSE text[k]]

\* str.isalpha of one character
isalpha(ch) == ch \in Range(LowerCase) \cup Range(UpperCase)

\* str.split(): the maximal runs of non-blank characters
RECURSIVE SplitFrom(_, _)
SplitFrom(text, word) ==
    IF text = <<>> THEN (IF word = <<>> THEN <<>> ELSE <<word>>)
    ELSE IF Head(text) = " "
      THEN (IF word = <<>> THEN <<>> ELSE <<word>>) \o SplitFrom(Tail(text), <<>>)
      ELSE SplitFrom(Tail(text), Append(word, Head(text)))

split(text) == SplitFrom(text, <<>>)

\* ''.join(word[0] for word in words if word[0].isalpha())
RECURSIVE Acronym(_)
Acronym(words) ==
    IF words = <<>> THEN <<>>
    ELSE (IF isalpha(Head(words)[1]) THEN <<Head(words)[1]>> ELSE <<>>) \o Acronym(Tail(words))

\* format_course_name with max_length = 25
format_course_name(course) ==
    LET words == split(upper(course)) IN
    IF Len(course) <= 25 THEN upper(course)
    ELSE IF Len(words) > 1 /\ Len(Acronym(words)) <= 25 THEN Acronym(words)
    ELSE SubSeq(upper(course), 1, 25 - 3) \o <<".", ".", ".">>

\* ExamRequest.courses holds names; course k of a request is given a short
\* name, a long name of several words or a long name of one word, each ending
\* in the course number
CourseNames ==
    << <<"C", "a", "l", "c", "u", "l", "u", "s">>,
       <<"I", "n", "t", "r", "o", "d", "u", "c", "t", "i", "o", "n", " ", "t", "o", " ", "C", "o", "m", "p", "u", "t", "e", "r", " ", "P", "r", "o", "g", "r", "a", "m", "m", "i", "n", "g">>,
       <<"E", "l", "e", "c", "t", "r", "o", "e", "n", "c", "e", "p", "h", "a", "l", "o", "g", "r", "a", "p", "h", "i", "c", "a", "l", "l", "y">> >>

CourseText(course) ==
    CourseNames[((course - 1) % Len(CourseNames)) + 1] \o TwoDigits(course)

TimetableCell(ce) ==
    [course |-> format_course_name(CourseText(ce.course)), sections |-> ce.sections, rooms |-> ce.rooms]

RECURSIVE CellsOfDate(_, _, _)
CellsOfDate(exams, date, timeslot) ==
    IF exams = <<>> THEN <<>>
    ELSE (IF Head(exams).date = date THEN <<TimetableCell(Head(exams))>> ELSE <<>>)
         \o CellsOfDate(Tail(exams), date, timeslot)

\* the cells of one (date, timeslot), in course_exams order
RECURSIVE CellsOf(_, _, _)
CellsOf(exams, date, timeslot) ==
    IF exams = <<>> THEN <<>>
    ELSE (IF Head(exams).date = date /\ Head(exams).timeslot = timeslot
            THEN <<TimetableCell(Head(exams))>> ELSE <<>>)
         \o CellsOf(Tail(exams), date, timeslot)

\* Schedule.to_timetable_format
to_timetable_format(schedule, date_objects, slots) ==
    [timetable |->
        [r \in 1..Len(date_objects) |->
            [date |-> date_objects[r],
             time_slots |-> [t \in Range(slots) |->
                               CellsOf(schedule.course_exams, date_objects[r], t)]]],
     time_headers |-> slots,
     total_courses |-> Len(schedule.course_exams),
     unassigned_courses |->
        Cardinality({i \in 1..Len(schedule.course_exams) :
                        ~Truthy(schedule.course_exams[i].date)
                        \/ ~Truthy(schedule.course_exams[i].timeslot)}),
     fitness_score |-> schedule.fitness]

\* ---------------------------------------------------------------- inputs
\* number of room lists, assignments and whole schedules randomize can produce
RECURSIVE Perms(_, _)
Perms(n, k) == IF k = 0 THEN 1 ELSE n * Perms(n - 1, k - 1)

\* b^e, cut off once it exceeds cap
RECURSIVE CappedPow(_, _, _)
CappedPow(b, e, cap) ==
    IF e = 0 THEN 1
    ELSE LET r == CappedPow(b, e - 1, cap) IN IF r > cap THEN r ELSE b * r

ScheduleSpace(nC, nS, nR, nD, nT, cap) ==
    CappedPow(Max(1, nD) * Max(1, nT) * Perms(nR, Min(nS, nR)), nC, cap)

Fitnesses(pop) == {pop[i].fitness : i \in 1..Len(pop)}

\* ---------------------------------------------------------------- generate_schedule / evolve
\* State on entry to scheduler.evolve(course_exams, dates, rooms, timeslots):
\* the request is parsed, the CourseExam list is built and a fresh
\* GeneticScheduler is constructed.
Init ==
    /\ \E nC \in 0..MaxCourses, nS \in 0..MaxSections, nR \in 0..MaxRooms,
          nD \in 0..MaxDates, nT \in 0..MaxSlots, ps \in 1..MaxPop :
          /\ CappedPow(ScheduleSpace(nC, nS, nR, nD, nT, MaxPopSpace), ps, MaxPopSpace)
                <= MaxPopSpace
          /\ courses = Ids(nC)
          /\ sections = Ids(nS)
          /\ rooms = Ids(nR)
          /\ dates = Ids(nD)
          /\ window = SchoolHours(nT)
          /\ timeslots = TimeslotIds(window)
          /\ population_size = ps
          /\ course_exams = BuildCourseExams(Ids(nC), Ids(nS))
    /\ generations \in 1..MaxGen
    /\ population = <<>>
    /\ best_schedule = <<>>
    /\ best_generation = 0
    /\ generation = 0
    /\ new_population = <<>>
    /\ pc = "evolve"
    /\ error = "none"
    /\ early = FALSE
    /\ result = <<>>
    /\ produced = {}
    /\ subjects = <<>>
    /\ exam_dicts = <<>>
    /\ next_gen = <<>>

\* create_initial_population: population_size randomized, scored copies
CreateInitialPopulation ==
    /\ pc = "evolve"
    /\ ~RandomizeRaises(course_exams, dates, timeslots)
    /\ \E pop \in [1..population_size -> Randomize(course_exams, dates, timeslots, rooms)] :
          /\ population' = [i \in 1..population_size |-> Scored(pop[i], dates)]
          /\ produced' = Fitnesses(population')
    /\ pc' = "loop"
    /\ UNCHANGED <<router_state, inputs, best_schedule, best_generation, generation, new_population,
                   error, early, result>>

\* create_initial_population -> randomize -> random.choice([]) raises IndexError
CreateInitialPopulationRaises ==
    /\ pc = "evolve"
    /\ RandomizeRaises(course_exams, dates, timeslots)
    /\ pc' = "raised"
    /\ error' = "IndexError"
    /\ UNCHANGED <<router_state, inputs, population, best_schedule, best_generation, generation,
                   new_population, early, result, produced>>

\* head of a generation: track the best schedule
TrackBest ==
    /\ pc = "loop"
    /\ generation < generations
    /\ LET current_best == MaxByFitness(population) IN
         IF Beats(current_best, best_schedule)
           THEN /\ best_schedule' = <<current_best>>
                /\ best_generation' = generation
           ELSE UNCHANGED <<best_schedule, best_generation>>
    /\ pc' = "check"
    /\ UNCHANGED <<router_state, inputs, population, generation, new_population, error, early, result,
                   produced>>

\* early stopping: current_best.fitness >= 1000, break and return
EarlyStop ==
    /\ pc = "check"
    /\ EarlyStopReached(MaxByFitness(population), dates)
    /\ early' = TRUE
    /\ pc' = "returned"
    /\ UNCHANGED <<router_state, inputs, population, best_schedule, best_generation, generation,
                   new_population, error, result, produced>>

\* elitism: the first elite_count of the sorted population open the new one
Elitism ==
    /\ pc = "check"
    /\ ~EarlyStopReached(MaxByFitness(population), dates)
    /\ new_population' = SubSeq(SortedDesc(population), 1,
                                Min(EliteCount(population_size), Len(population)))
    /\ pc' = "offspring"
    /\ UNCHANGED <<router_state, inputs, population, best_schedule, best_generation, generation,
                   error, early, result, produced>>

ChildExamsOwnerParent(parent) == parent

\* The population member whose course_exams list a child works on.  crossover
\* builds the child's list with copy.deepcopy(parent.course_exams) and copies
\* the room lists it takes from the other parent, so the child's CourseExams
\* are fresh objects: no member (0).
ChildExamsOwner(parent) == 0

\* the population after the assignments made to a child's CourseExams
WriteThrough(pop, owner, exams) ==
    IF owner = 0 THEN pop ELSE [pop EXCEPT ![owner].course_exams = exams]

\* one pass of the while loop: selection, crossover, mutate, calculate_fitness
Offspring ==
    /\ pc = "offspring"
    /\ Len(new_population) < population_size
    /\ ~SelectionRaises(population)
    /\ ~CrossoverRaises(course_exams)
    /\ \E p1, p2 \in TournamentWinners(population),
          crossover_point \in 1..(Len(course_exams) - 1) :
          LET kids == crossover(population[p1], population[p2], crossover_point) IN
          \E child1 \in mutate(kids[1], dates, timeslots, rooms),
             child2 \in mutate(kids[2], dates, timeslots, rooms) :
             /\ new_population' = new_population
                                    \o <<Scored(child1, dates), Scored(child2, dates)>>
             /\ population' = WriteThrough(WriteThrough(population, ChildExamsOwner(p1),
                                                        child1),
                                           ChildExamsOwner(p2), child2)
    /\ UNCHANGED <<router_state, inputs, best_schedule, best_generation, generation, pc,
                   error, early, result, produced>>

\* the while loop raises: random.sample on fewer than 3 schedules, or
\* random.randint(1, 0) on a single course
OffspringRaises ==
    /\ pc = "offspring"
    /\ Len(new_population) < population_size
    /\ SelectionRaises(population) \/ CrossoverRaises(course_exams)
    /\ pc' = "raised"
    /\ error' = "ValueError"
    /\ UNCHANGED <<router_state, inputs, population, best_schedule, best_generation, generation,
                   new_population, early, result, produced>>

KeptWhole(new_pop, psize) == new_pop

\* new_population[:self.population_size]
Truncated(new_pop, psize) == SubSeq(new_pop, 1, Min(psize, Len(new_pop)))

\* end of a generation: self.population = new_population[:population_size]
Replace ==
    /\ pc = "offspring"
    /\ Len(new_population) >= population_size
    /\ population' = Truncated(new_population, population_size)
    /\ produced' = produced \cup Fitnesses(population')
    /\ new_population' = <<>>
    /\ generation' = generation + 1
    /\ pc' = "loop"
    /\ UNCHANGED <<router_state, inputs, best_schedule, best_generation, error, early, result>>

\* the generation budget is used up: return self.best_schedule
Return ==
    /\ pc = "loop"
    /\ generation >= generations
    /\ pc' = "returned"
    /\ UNCHANGED <<router_state, inputs, population, best_schedule, best_generation, generation,
                   new_population, error, early, result, produced>>

\* generate_schedule after evolve: best_schedule.to_timetable_format
Format ==
    /\ pc = "returned"
    /\ result' = <<[to_timetable_format(best_schedule[1], dates, timeslots)
                      EXCEPT !.fitness_score = best_schedule[1].fitness]>>
    /\ pc' = "responded"
    /\ UNCHANGED <<router_state, inputs, population, best_schedule, best_generation, generation,
                   new_population, error, early, produced>>

Next ==
    \/ CreateInitialPopulation
    \/ CreateInitialPopulationRaises
    \/ TrackBest
    \/ EarlyStop
    \/ Elitism
    \/ Offspring
    \/ OffspringRaises
    \/ Replace
    \/ Return
    \/ Format

Spec == Init /\ [][Next]_vars

\* ---------------------------------------------------------------- calculate_fitness alone
\* A Schedule is constructed over course_exams each of which is either as
\* CourseExam.__init__ leaves it or as randomize assigns it; its fitness is
\* still the 0.0 of Schedule.__init__.
FitExams(exams, ds, ts, rs) ==
    LET choice(ce) == {ce} \cup RandomizedExam(ce, ds, ts, rs) IN
    {s \in [1..Len(exams) -> UNION {choice(exams[i]) : i \in 1..Len(exams)}] :
        \A i \in 1..Len(exams) : s[i] \in choice(exams[i])}

InitFit ==
    /\ \E nC \in 0..MaxCourses, nS \in 0..MaxSections, nR \in 0..MaxRooms,
          nD \in 0..MaxDates, nT \in 0..MaxSlots :
          /\ ScheduleSpace(nC, nS, nR, nD, nT, MaxFitSpace) <= MaxFitSpace
          /\ courses = Ids(nC)
          /\ sections = Ids(nS)
          /\ rooms = Ids(nR)
          /\ dates = Ids(nD)
          /\ window = SchoolHours(nT)
          /\ timeslots = TimeslotIds(window)
          /\ course_exams = BuildCourseExams(Ids(nC), Ids(nS))
          /\ \E exams \in FitExams(course_exams, dates, timeslots, rooms) :
                population = <<[course_exams |-> exams, fitness |-> 0]>>
    /\ population_size = 1
    /\ generations = 1
    /\ best_schedule = <<>>
    /\ best_generation = 0
    /\ generation = 0
    /\ new_population = <<>>
    /\ pc = "fitness"
    /\ error = "none"
    /\ early = FALSE
    /\ result = <<>>
    /\ produced = {}
    /\ subjects = <<>>
    /\ exam_dicts = <<>>
    /\ next_gen = <<>>

\* schedule.calculate_fitness()
CalculateFitness ==
    /\ pc = "fitness"
    /\ population' = <<Scored(population[1].course_exams, dates)>>
    /\ pc' = "scored"
    /\ UNCHANGED <<router_state, inputs, best_schedule, best_generation, generation, new_population,
                   error, early, result, produced>>

\* schedule.to_timetable_format(date_objects, timeslots) for a grid that holds
\* the first k dates and the first j timeslots of the universes
FormatTimetable ==
    /\ pc = "scored"
    /\ \E k \in 0..Len(dates), j \in 0..Len(timeslots) :
          result' = <<to_timetable_format(population[1], SubSeq(dates, 1, k),
                                          SubSeq(timeslots, 1, j))>>
    /\ pc' = "formatted"
    /\ UNCHANGED <<router_state, inputs, population, best_schedule, best_generation, generation,
                   new_population, error, early, produced>>

NextFit ==
    \/ CalculateFitness
    \/ FormatTimetable

SpecFit == InitFit /\ [][NextFit]_vars

\* ---------------------------------------------------------------- crossover and mutate alone
\* Two parents as randomize and calculate_fitness leave them; crossover is
\* applied to the pair, mutate to the first.  new_population receives what the
\* operator returns (crossover) or the schedule after the in-place change
\* (mutate).
InitOps ==
    /\ \E nC \in 0..MaxCourses, nS \in 0..MaxSections, nR \in 0..MaxRooms,
          nD \in 1..MaxDates, nT \in 1..MaxSlots :
          /\ CappedPow(ScheduleSpace(nC, nS, nR, nD, nT, MaxOpsSpace), 2, MaxOpsSpace)
                <= MaxOpsSpace
          /\ courses = Ids(nC)
          /\ sections = Ids(nS)
          /\ rooms = Ids(nR)
          /\ dates = Ids(nD)
          /\ window = SchoolHours(nT)
          /\ timeslots = TimeslotIds(window)
          /\ course_exams = BuildCourseExams(Ids(nC), Ids(nS))
          /\ \E pop \in [1..2 -> Randomize(course_exams, dates, timeslots, rooms)] :
                population = [i \in 1..2 |-> Scored(pop[i], dates)]
    /\ population_size = 2
    /\ generations = 1
    /\ best_schedule = <<>>
    /\ best_generation = 0
    /\ generation = 0
    /\ new_population = <<>>
    /\ pc = "operate"
    /\ error = "none"
    /\ early = FALSE
    /\ result = <<>>
    /\ produced = {}
    /\ subjects = <<>>
    /\ exam_dicts = <<>>
    /\ next_gen = <<>>

\* child1, child2 = self.crossover(parent1, parent2)
ApplyCrossover ==
    /\ pc = "operate"
    /\ ~CrossoverRaises(population[1].course_exams)
    /\ \E crossover_point \in 1..(Len(population[1].course_exams) - 1) :
          LET kids == crossover(population[1], population[2], crossover_point) IN
          new_population' = <<Schedule(kids[1]), Schedule(kids[2])>>
    /\ pc' = "crossed"
    /\ UNCHANGED <<router_state, inputs, population, best_schedule, best_generation, generation,
                   error, early, result, produced>>

\* crossover of parents with fewer than 2 CourseExams: random.randint raises
ApplyCrossoverRaises ==
    /\ pc = "operate"
    /\ CrossoverRaises(population[1].course_exams)
    /\ pc' = "raised"
    /\ error' = "ValueError"
    /\ UNCHANGED <<router_state, inputs, population, best_schedule, best_generation, generation,
                   new_population, early, result, produced>>

\* self.mutate(schedule): the cached fitness is not touched
ApplyMutate ==
    /\ pc = "operate"
    /\ \E exams \in mutate(population[1].course_exams, dates, timeslots, rooms) :
          new_population' = <<[population[1] EXCEPT !.course_exams = exams]>>
    /\ pc' = "mutated"
    /\ UNCHANGED <<router_state, inputs, population, best_schedule, best_generation, generation,
                   error, early, result, produced>>

NextOps ==
    \/ ApplyCrossover
    \/ ApplyCrossoverRaises
    \/ ApplyMutate

SpecOps == InitOps /\ [][NextOps]_vars

\* ---------------------------------------------------------------- generate_timeslots alone
InitSlots ==
    /\ \E h1, h2 \in {h \in 0..MaxHour : h < 24}, m1, m2 \in {0, 30}, q \in 1..MaxDurTicks :
          window = [start_time |-> 60 * h1 + m1, end_time |-> 60 * h2 + m2,
                    duration |-> 15 * q]
    /\ timeslots = <<>>
    /\ courses = <<>>
    /\ sections = <<>>
    /\ rooms = <<>>
    /\ dates = <<>>
    /\ course_exams = <<>>
    /\ population_size = 1
    /\ generations = 1
    /\ population = <<>>
    /\ best_schedule = <<>>
    /\ best_generation = 0
    /\ generation = 0
    /\ new_population = <<>>
    /\ pc = "slots"
    /\ error = "none"
    /\ early = FALSE
    /\ result = <<>>
    /\ produced = {}
    /\ subjects = <<>>
    /\ exam_dicts = <<>>
    /\ next_gen = <<>>

\* timeslots = generate_timeslots(start_time, end_time, duration)
GenerateTimeslots ==
    /\ pc = "slots"
    /\ timeslots' = generate_timeslots(window.start_time, window.end_time, window.duration)
    /\ pc' = "slotted"
    /\ UNCHANGED <<router_state, courses, sections, rooms, dates, window, population_size, generations,
                   course_exams, population, best_schedule, best_generation, generation,
                   new_population, error, early, result, produced>>

NextSlots == GenerateTimeslots

SpecSlots == InitSlots /\ [][NextSlots]_vars

\* ---------------------------------------------------------------- routers/scheduler.py
\* The second genetic algorithm, POST /generate.  A schedule is a Python list
\* of exam dicts; lists made by crossover hold the very dicts of the parents,
\* so a dict is named by its identity (its index in exam_dicts) and a schedule
\* is a sequence of identities.  Sections, timeslots and rooms are database
\* rows named by their ids 1..n; a subject is named by its teacher_id, None
\* when it has no teacher.
ExamDict(section_id, teacher_id, timeslot_id, room_id) ==
    [section_id |-> section_id, teacher_id |-> teacher_id,
     timeslot_id |-> timeslot_id, room_id |-> room_id]

\* number of exams of one schedule: one per section and subject
ExamCount == Len(sections) * Len(subjects)

\* create_random_schedule, for schedule number s of the initial population:
\* sections in the outer loop, subjects in the inner, fresh dicts
create_random_schedule(s) == [k \in 1..ExamCount |-> (s - 1) * ExamCount + k]

\* fitness: the penalty of a schedule; the three kinds of key share one dict
RECURSIVE PenaltyFrom(_, _, _)
PenaltyFrom(schedule, dicts, seen) ==
    IF schedule = <<>> THEN 0
    ELSE LET exam == dicts[Head(schedule)]
             key_teacher == <<exam.teacher_id, exam.timeslot_id>>
             key_section == <<exam.section_id, exam.timeslot_id>>
             key_room == <<exam.room_id, exam.timeslot_id>>
             seen1 == seen \cup {key_teacher}
             seen2 == seen1 \cup {key_section}
             seen3 == seen2 \cup {key_room}
         IN (IF key_teacher \in seen THEN 5 ELSE 0)
            + (IF key_section \in seen1 THEN 5 ELSE 0)
            + (IF key_room \in seen2 THEN 3 ELSE 0)
            + PenaltyFrom(Tail(schedule), dicts, seen3)

fitness(schedule, dicts) == PenaltyFrom(schedule, dicts, {})

\* population.sort(key=fitness): stable, ascending
RECURSIVE SortedByFitness(_, _)
SortedByFitness(pop, dicts) ==
    IF pop = <<>> THEN <<>>
    ELSE LET i == CHOOSE k \in 1..Len(pop) :
                    /\ \A j \in 1..Len(pop) : fitness(pop[k], dicts) <= fitness(pop[j], dicts)
                    /\ \A j \in 1..(k - 1) : fitness(pop[k], dicts) < fitness(pop[j], dicts)
         IN <<pop[i]>>
            \o SortedByFitness(SubSeq(pop, 1, i - 1) \o SubSeq(pop, i + 1, Len(pop)), dicts)

\* crossover: parent1[:cut] + parent2[cut:], a new list of the parents' dicts
scheduler_crossover(parent1, parent2) ==
    LET cut == Len(parent1) \div 2 IN
    SubSeq(parent1, 1, cut) \o SubSeq(parent2, cut + 1, Len(parent2))

\* mutate: every dict of the schedule may get any room and any timeslot,
\* assigned in place; the outcomes, as the exam dicts after the call
scheduler_mutate(schedule, dicts, ts, rs) ==
    {[o \in 1..Len(dicts) |->
        IF o \in Range(schedule)
          THEN [dicts[o] EXCEPT !.room_id = m[o].room_id, !.timeslot_id = m[o].timeslot_id]
          ELSE dicts[o]] :
     m \in [Range(schedule) -> [timeslot_id : Range(ts), room_id : Range(rs)]]}

\* population[:10]
ParentPool(pop) == 1..Min(10, Len(pop))

InitGen ==
    /\ \E nSec \in 0..MaxSections, nSubj \in 0..MaxSubjects, nR \in 0..MaxRooms,
          nT \in 0..MaxSlots, ps \in 1..MaxPop :
          /\ nSec * nSubj * ps <= MaxDicts
          /\ CappedPow(Max(1, nT * nR), nSec * nSubj * ps, MaxGenSpace) <= MaxGenSpace
          /\ sections = Ids(nSec)
          /\ subjects \in [1..nSubj -> 0..MaxTeachers]
          /\ rooms = Ids(nR)
          /\ window = SchoolHours(nT)
          /\ timeslots = TimeslotIds(window)
          /\ population_size = ps
    /\ generations \in 1..MaxGen
    /\ courses = <<>>
    /\ dates = <<>>
    /\ course_exams = <<>>
    /\ population = <<>>
    /\ exam_dicts = <<>>
    /\ next_gen = <<>>
    /\ best_schedule = <<>>
    /\ best_generation = 0
    /\ generation = 0
    /\ new_population = <<>>
    /\ pc = "query"
    /\ error = "none"
    /\ early = FALSE
    /\ result = <<>>
    /\ produced = {}

\* "No sections/subjects found" / "No rooms or timeslots found in database"
NoDataFound ==
    /\ pc = "query"
    /\ sections = <<>> \/ subjects = <<>> \/ timeslots = <<>> \/ rooms = <<>>
    /\ pc' = "message"
    /\ UNCHANGED <<router_state, inputs, population, best_schedule, best_generation,
                   generation, new_population, error, early, result, produced>>

\* the initial population: population_size random schedules
InitializePopulation ==
    /\ pc = "query"
    /\ sections # <<>> /\ subjects # <<>> /\ timeslots # <<>> /\ rooms # <<>>
    /\ \E drawn \in [1..(population_size * ExamCount) ->
                        [timeslot_id : Range(timeslots), room_id : Range(rooms)]] :
          exam_dicts' =
             [o \in 1..(population_size * ExamCount) |->
                LET k == ((o - 1) % ExamCount) + 1 IN
                ExamDict(sections[((k - 1) \div Len(subjects)) + 1],
                         subjects[((k - 1) % Len(subjects)) + 1],
                         drawn[o].timeslot_id, drawn[o].room_id)]
    /\ population' = [s \in 1..population_size |-> create_random_schedule(s)]
    /\ pc' = "sort"
    /\ UNCHANGED <<subjects, next_gen, inputs, best_schedule, best_generation,
                   generation, new_population, error, early, result, produced>>

\* head of a generation: sort, best = population[0], next_gen = [best]
SortAndKeepBest ==
    /\ pc = "sort"
    /\ generation < generations
    /\ population' = SortedByFitness(population, exam_dicts)
    /\ next_gen' = <<population'[1]>>
    /\ produced' = produced \cup {fitness(population'[1], exam_dicts)}
    /\ pc' = "breed"
    /\ UNCHANGED <<subjects, exam_dicts, inputs, best_schedule, best_generation,
                   generation, new_population, error, early, result>>

\* one pass of the while loop: sample two parents of the first ten, crossover,
\* mutate, append
BreedChild ==
    /\ pc = "breed"
    /\ Len(next_gen) < population_size
    /\ \E p1, p2 \in ParentPool(population) :
          /\ p1 # p2
          /\ LET child == scheduler_crossover(population[p1], population[p2]) IN
             /\ exam_dicts' \in scheduler_mutate(child, exam_dicts, timeslots, rooms)
             /\ next_gen' = Append(next_gen, child)
    /\ UNCHANGED <<subjects, inputs, population, best_schedule, best_generation,
                   generation, new_population, pc, error, early, result, produced>>

\* end of a generation: population = next_gen
NextGeneration ==
    /\ pc = "breed"
    /\ Len(next_gen) >= population_size
    /\ population' = next_gen
    /\ generation' = generation + 1
    /\ pc' = "sort"
    /\ UNCHANGED <<router_state, inputs, best_schedule, best_generation,
                   new_population, error, early, result, produced>>

\* after the loop: best_schedule = population[0], saved as Exam rows
SaveBest ==
    /\ pc = "sort"
    /\ generation >= generations
    /\ best_schedule' = <<population[1]>>
    /\ result' = <<[k \in 1..Len(population[1]) |-> exam_dicts[population[1][k]]]>>
    /\ pc' = "saved"
    /\ UNCHANGED <<router_state, inputs, population, best_generation, generation,
                   new_population, error, early, produced>>

NextGen ==
    \/ NoDataFound
    \/ InitializePopulation
    \/ SortAndKeepBest
    \/ BreedChild
    \/ NextGeneration
    \/ SaveBest

SpecGen == InitGen /\ [][NextGen]_vars

\* ---------------------------------------------------------------- properties
Returned == pc \in {"returned", "responded"}

\* every Schedule the scheduler currently holds
HeldSchedules == Range(population) \cup Range(new_population) \cup Range(best_schedule)

\* C1 - anti-leakage by construction: every Schedule of every population built
\* during evolve, and the one it returns, holds exactly one CourseExam per
\* input course, in input order, with the input course identifier and the full
\* input section list, and each CourseExam carries one date and one timeslot
\* (so all sections of a course share them).
C1_AntiLeakage ==
    \A s \in HeldSchedules :
        /\ Len(s.course_exams) = Len(courses)
        /\ \A i \in 1..Len(s.course_exams) :
              LET ce == s.course_exams[i] IN
              /\ DOMAIN ce = {"course", "sections", "date", "timeslot", "rooms"}
              /\ ce.course = courses[i]
              /\ ce.sections = sections
              /\ ce.date \in Range(dates)
              /\ ce.timeslot \in Range(timeslots)

\* bred children and a returned schedule exist, for several courses and sections
C1_Witness ==
    /\ Returned
    /\ generation >= 1
    /\ Len(courses) >= 2
    /\ Len(sections) >= 2
    /\ \E i \in 2..Len(population) : population[i] # population[1]

\* C2 as stated - whenever evolve stops early, the returned schedule has no
\* active penalty: room-conflict, room-shortage and date-distribution penalties
\* are all zero.
C2_NoPenaltyAtEarlyStop ==
    (Returned /\ early) =>
        LET exams == best_schedule[1].course_exams IN
        /\ ConflictPenalty(exams) = 0
        /\ RoomShortagePenalty(exams) = 0
        /\ DistributionPenaltyNum(exams, dates) = 0

\* C2 amended - whenever evolve stops early, the returned schedule is the
\* current generation's best and has fitness >= 1000: its penalties together
\* do not exceed its room-efficiency bonus (they need not be zero).
C2_EarlyStopWithinBonus ==
    (Returned /\ early) =>
        LET exams == best_schedule[1].course_exams IN
        /\ best_schedule[1] = MaxByFitness(population)
        /\ best_generation = generation
        /\ best_schedule[1].fitness >= 1000 * Den(dates)
        /\ (ConflictPenalty(exams) + RoomShortagePenalty(exams)) * Den(dates)
             + DistributionPenaltyNum(exams, dates)
           <= RoomEfficiencyBonus(exams) * Den(dates)

\* an early stop on a schedule of several courses that still carries a
\* date-distribution penalty
C2_Witness ==
    /\ pc = "responded"
    /\ early
    /\ Len(courses) >= 2
    /\ DistributionPenaltyNum(best_schedule[1].course_exams, dates) > 0

\* C3 - the schedule evolve returns is at least as fit as every Schedule that
\* was a member of any population during the run, the population produced by
\* the last generation included.
C3_ReturnsBestEver ==
    Returned => \A f \in produced : best_schedule[1].fitness >= f

\* C4 - elitism monotonicity: best_schedule.fitness never decreases; it changes
\* only in the tracking step, to the current generation's best and only when
\* that is strictly fitter; after the tracking step of a generation it is >=
\* the fitness of every member of that generation's population.
C4_ElitismMonotone ==
    [][/\ (best_schedule # <<>> =>
              /\ best_schedule' # <<>>
              /\ best_schedule'[1].fitness >= best_schedule[1].fitness)
       /\ (best_schedule' # best_schedule =>
              /\ pc = "loop" /\ pc' = "check"
              /\ best_schedule' = <<MaxByFitness(population)>>
              /\ best_generation' = generation
              /\ (best_schedule # <<>> =>
                    best_schedule'[1].fitness > best_schedule[1].fitness))
       /\ (pc' = "check" =>
              \A i \in 1..Len(population') :
                  population'[i].fitness <= best_schedule'[1].fitness)]_vars

\* the best schedule was replaced by a fitter one in a later generation
C4_Witness ==
    /\ pc = "check"
    /\ generation >= 1
    /\ best_generation = generation

ValidEndToEnd ==
    /\ Len(courses) >= 2
    /\ Len(sections) >= 1
    /\ rooms # <<>>
    /\ dates # <<>>
    /\ timeslots # <<>>
    /\ population_size >= 3
    /\ generations >= 1

\* C5 - end to end: with >= 2 courses, >= 1 section, non-empty room, date and
\* timeslot universes, population_size >= 3 and generations >= 1, evolve
\* returns, the returned schedule gives every course a date of the date
\* universe and a timeslot of the timeslot universe, and to_timetable_format
\* reports total_courses = number of courses and unassigned_courses = 0.
C5_EndToEnd ==
    ValidEndToEnd =>
        /\ error = "none"
        /\ Returned =>
              \A i \in 1..Len(best_schedule[1].course_exams) :
                  /\ best_schedule[1].course_exams[i].date \in Range(dates)
                  /\ best_schedule[1].course_exams[i].timeslot \in Range(timeslots)
        /\ pc = "responded" =>
              /\ result[1].total_courses = Len(courses)
              /\ result[1].unassigned_courses = 0

\* a response after a run that bred at least one generation and found its best
\* schedule among the children
C5_Witness ==
    /\ ValidEndToEnd
    /\ pc = "responded"
    /\ best_generation >= 1

\* C6 - an empty date or timeslot universe with at least one course is
\* absorbed: create_initial_population and evolve raise no error.
C6_InvalidWindowAbsorbed ==
    (Len(courses) >= 1 /\ (dates = <<>> \/ timeslots = <<>>)) => error = "none"

\* C7 - fewer rooms than sections (any number of courses >= 1, non-empty date
\* and timeslot universes; population_size >= 3 as in generate_schedule):
\* evolve completes without an error.
C7_InsufficientRoomsAbsorbed ==
    (/\ Len(rooms) < Len(sections)
     /\ Len(courses) >= 1
     /\ dates # <<>>
     /\ timeslots # <<>>
     /\ population_size >= 3) => error = "none"

\* C8 - empty course list: evolve raises no error and returns a Schedule with
\* zero CourseExams and fitness 1000; to_timetable_format reports
\* total_courses = 0 and unassigned_courses = 0.
C8_EmptyCourseList ==
    courses = <<>> =>
        /\ error = "none"
        /\ Returned =>
              /\ best_schedule[1].course_exams = <<>>
              /\ best_schedule[1].fitness = 1000 * Den(dates)
        /\ pc = "responded" =>
              /\ result[1].total_courses = 0
              /\ result[1].unassigned_courses = 0
              /\ result[1].fitness_score = 1000 * Den(dates)

C8_Witness ==
    /\ courses = <<>>
    /\ pc = "responded"
    /\ population_size >= 3

\* the (date, timeslot, room) triples used by CourseExams that have both a date
\* and a timeslot, and the number of uses of one
UsedTriples(exams) ==
    {<<exams[i].date, exams[i].timeslot, exams[i].rooms[j]>> :
        <<i, j>> \in {p \in (1..Len(exams)) \X (1..Len(rooms)) :
                        /\ p[2] <= Len(exams[p[1]].rooms)
                        /\ Truthy(exams[p[1]].date)
                        /\ Truthy(exams[p[1]].timeslot)}}

UsesOf(exams, triple) ==
    Cardinality({p \in (1..Len(exams)) \X (1..Len(rooms)) :
                    /\ p[2] <= Len(exams[p[1]].rooms)
                    /\ Truthy(exams[p[1]].date)
                    /\ Truthy(exams[p[1]].timeslot)
                    /\ <<exams[p[1]].date, exams[p[1]].timeslot, exams[p[1]].rooms[p[2]]>>
                         = triple})

ExcessUses(exams) ==
    LET excess == [t \in UsedTriples(exams) |-> UsesOf(exams, t) - 1]
    IN SumOver(excess, UsedTriples(exams))

\* C9 - room-conflict counting: the conflict count of calculate_fitness is the
\* sum over every used (date, timeslot, room) triple of (uses - 1), and the
\* fitness it stores carries conflict_penalty = 100 x that count.
C9_ConflictCount ==
    pc = "scored" =>
        LET exams == population[1].course_exams IN
        /\ Conflicts(exams) = ExcessUses(exams)
        /\ ConflictPenalty(exams) = 100 * ExcessUses(exams)
        /\ population[1].fitness =
              ((1000 + RoomEfficiencyBonus(exams)) - 100 * ExcessUses(exams)
                  - RoomShortagePenalty(exams)) * Den(dates)
              - DistributionPenaltyNum(exams, dates)

\* three CourseExams collide on one room in one slot
C9_Witness ==
    /\ pc = "scored"
    /\ \E t \in UsedTriples(population[1].course_exams) :
          UsesOf(population[1].course_exams, t) >= 3

\* C10 - date-load imbalance: distribution_penalty is 2 x the sum over every
\* candidate date (dates without an exam included) of (count - mean)^2, divided
\* by the number of candidate dates, mean = exams / dates; 0 without dates.
\* (Both sides are multiplied by Den(dates) = len(dates)^3.)
C10_VarianceOverAllDates ==
    pc = "scored" =>
        LET exams == population[1].course_exams
            D == Len(dates)
            n == Len(exams)
            count == [d \in Range(dates) |->
                        Cardinality({i \in 1..n : exams[i].date = d})]
            sq == [d \in Range(dates) |-> (count[d] * D - n) * (count[d] * D - n)]
        IN DistributionPenaltyNum(exams, dates)
             = (IF D = 0 THEN 0 ELSE 2 * SumOver(sq, Range(dates)))

\* C11 - for every Schedule with zero room conflicts, zero room shortage and a
\* perfectly even date distribution (every candidate date carries exactly
\* mean = exams / dates exams), calculate_fitness = 1000 + efficiency_bonus,
\* where efficiency_bonus = 10 x the number of CourseExams whose room count is
\* >= its section count, and efficiency_bonus >= 0.
EvenDistribution(exams, ds) ==
    \A d \in Range(ds) :
        Cardinality({i \in 1..Len(exams) : exams[i].date = d}) * Len(ds) = Len(exams)

EnoughRooms(exams) ==
    Cardinality({i \in 1..Len(exams) : Len(exams[i].rooms) >= Len(exams[i].sections)})

C11_CleanFitness ==
    pc = "scored" =>
        LET exams == population[1].course_exams IN
        (/\ ExcessUses(exams) = 0
         /\ \A i \in 1..Len(exams) : Len(exams[i].rooms) >= Len(exams[i].sections)
         /\ EvenDistribution(exams, dates)) =>
            /\ population[1].fitness = (1000 + 10 * EnoughRooms(exams)) * Den(dates)
            /\ RoomEfficiencyBonus(exams) = 10 * EnoughRooms(exams)
            /\ RoomEfficiencyBonus(exams) >= 0

\* a scored schedule of several courses with at least one section to seat,
\* spread evenly over two dates without conflict or shortage
C11_Witness ==
    /\ pc = "scored"
    /\ Len(population[1].course_exams) >= 2
    /\ Len(dates) >= 2
    /\ Len(sections) >= 1
    /\ ExcessUses(population[1].course_exams) = 0
    /\ \A i \in 1..Len(population[1].course_exams) :
          Len(population[1].course_exams[i].rooms) >= Len(sections)
    /\ EvenDistribution(population[1].course_exams, dates)

\* date, timeslot and rooms of a CourseExam
Assignment(ce) == <<ce.date, ce.timeslot, ce.rooms>>

\* C12 - crossover of two parents with n >= 2 CourseExams picks a cut c in
\* [1, n-1] and returns two children of length n such that at every list index
\* i < c child1 has parent1's (date, timeslot, rooms) and child2 parent2's, at
\* every i >= c child1 has parent2's and child2 parent1's, and at every index
\* both children keep the parents' course identifier and section list.
\* (List index i is position i + 1 of the sequence.)
C12_Crossover ==
    pc = "crossed" =>
        LET p1 == population[1].course_exams
            p2 == population[2].course_exams
            c1 == new_population[1].course_exams
            c2 == new_population[2].course_exams
            n  == Len(p1)
        IN /\ n >= 2
           /\ Len(new_population) = 2
           /\ Len(c1) = n /\ Len(c2) = n /\ Len(p2) = n
           /\ \E c \in 1..(n - 1) :
                 \A i \in 0..(n - 1) :
                    /\ i < c => /\ Assignment(c1[i + 1]) = Assignment(p1[i + 1])
                                /\ Assignment(c2[i + 1]) = Assignment(p2[i + 1])
                    /\ i >= c => /\ Assignment(c1[i + 1]) = Assignment(p2[i + 1])
                                 /\ Assignment(c2[i + 1]) = Assignment(p1[i + 1])
           /\ \A k \in 1..n :
                 /\ c1[k].course = p1[k].course /\ c1[k].sections = p1[k].sections
                 /\ c2[k].course = p2[k].course /\ c2[k].sections = p2[k].sections

\* three courses, parents that differ at every index, children that differ
\* from both parents
C12_Witness ==
    /\ pc = "crossed"
    /\ Len(population[1].course_exams) >= 3
    /\ \A k \in 1..Len(population[1].course_exams) :
          Assignment(population[1].course_exams[k]) # Assignment(population[2].course_exams[k])
    /\ new_population[1].course_exams \notin
          {population[1].course_exams, population[2].course_exams}

\* the fields of (date, timeslot, rooms) in which two CourseExams differ
ChangedFields(a, b) ==
    {f \in {"date", "timeslot", "rooms"} : a[f] # b[f]}

\* C13 - mutate never changes course identity: after a call the schedule has
\* the same number and order of CourseExams, each with unchanged course
\* identifier and section list, and for each CourseExam at most one of date,
\* timeslot and rooms differs from its value before the call.
C13_MutateFrame ==
    pc = "mutated" =>
        LET before == population[1].course_exams
            after  == new_population[1].course_exams
        IN /\ Len(after) = Len(before)
           /\ \A i \in 1..Len(before) :
                 /\ after[i].course = before[i].course
                 /\ after[i].sections = before[i].sections
                 /\ Cardinality(ChangedFields(before[i], after[i])) <= 1

\* a call that changed two CourseExams, in different fields
C13_Witness ==
    /\ pc = "mutated"
    /\ \E i, j \in 1..Len(population[1].course_exams) :
          /\ i # j
          /\ ChangedFields(population[1].course_exams[i], new_population[1].course_exams[i]) # {}
          /\ ChangedFields(population[1].course_exams[j], new_population[1].course_exams[j]) # {}
          /\ ChangedFields(population[1].course_exams[i], new_population[1].course_exams[i])
               # ChangedFields(population[1].course_exams[j], new_population[1].course_exams[j])

\* reading a slot text back: the digits before ":" are the 12-hour hour, the two
\* after it the minute, then a blank and AM or PM
DigitValue(ch) == CHOOSE n \in 0..9 : Digit(n) = ch

RECURSIVE Number(_)
Number(digits) ==
    IF digits = <<>> THEN 0
    ELSE 10 * Number(SubSeq(digits, 1, Len(digits) - 1)) + DigitValue(digits[Len(digits)])

IndexOf(text, ch) == CHOOSE k \in 1..Len(text) : text[k] = ch /\ \A j \in 1..(k - 1) : text[j] # ch

ClockMinutes(text) ==
    LET colon == IndexOf(text, ":")
        hour12 == Number(SubSeq(text, 1, colon - 1))
        minute == Number(SubSeq(text, colon + 1, colon + 2))
    IN 60 * ((hour12 % 12) + (IF text[colon + 4] = "P" THEN 12 ELSE 0)) + minute

SlotStart(slot) == ClockMinutes(SubSeq(slot, 1, IndexOf(slot, "-") - 2))

SlotEnd(slot) == ClockMinutes(SubSeq(slot, IndexOf(slot, "-") + 2, Len(slot)))

\* C14 - generate_timeslots(start, end, duration) with duration > 0 returns
\* exactly floor((end - start) / duration) slots when end >= start and none
\* otherwise; slot i spans [start + i*duration, start + (i+1)*duration), slots
\* are consecutive, and every slot ends at or before end; 07:00-08:30 and
\* 07:00-09:00 with duration 90 each yield exactly one slot.
C14_Timeslots ==
    pc = "slotted" =>
        LET start == window.start_time
            end == window.end_time
            duration == window.duration
            n == Len(timeslots)
        IN /\ duration > 0
           /\ IF end >= start THEN n = (end - start) \div duration ELSE n = 0
           /\ \A i \in 0..(n - 1) :
                 /\ SlotStart(timeslots[i + 1]) = start + i * duration
                 /\ SlotEnd(timeslots[i + 1]) = start + (i + 1) * duration
                 /\ SlotEnd(timeslots[i + 1]) <= end
           /\ \A i \in 1..(n - 1) : SlotStart(timeslots[i + 1]) = SlotEnd(timeslots[i])
           /\ (start = 420 /\ duration = 90 /\ end \in {510, 540}) => n = 1

\* 07:00 to 08:30 with duration 90: the single slot ends exactly at end_time
C14_Witness ==
    /\ pc = "slotted"
    /\ window = [start_time |-> 420, end_time |-> 510, duration |-> 90]
    /\ Len(timeslots) = 1

\* the CourseExams (by position) assigned to one (date, timeslot)
AssignedTo(exams, date, timeslot) ==
    {i \in 1..Len(exams) : exams[i].date = date /\ exams[i].timeslot = timeslot}

\* C15 - to_timetable_format, for a grid of distinct dates and timeslots: the
\* cell of each (date, timeslot) of the grid holds exactly the CourseExams
\* assigned to that date and timeslot, once each and in schedule order, each
\* with its section list and room list, so a CourseExam whose date and
\* timeslot are in the grid is in its own cell and in no other;
\* total_courses is the number of CourseExams and unassigned_courses the
\* number of CourseExams lacking a date or a timeslot.
C15_TimetableCells ==
    pc = "formatted" =>
        LET exams == population[1].course_exams
            out == result[1]
        IN /\ \A r \in 1..Len(out.timetable) :
                 \A t \in DOMAIN out.timetable[r].time_slots :
                    LET cell == out.timetable[r].time_slots[t]
                        here == AssignedTo(exams, out.timetable[r].date, t)
                    IN /\ Len(cell) = Cardinality(here)
                       /\ \A i \in here :
                             LET at == Cardinality({j \in here : j <= i}) IN
                             /\ cell[at].sections = exams[i].sections
                             /\ cell[at].rooms = exams[i].rooms
           /\ \A r \in 1..Len(out.timetable) :
                 DOMAIN out.timetable[r].time_slots = Range(out.time_headers)
           /\ out.total_courses = Len(exams)
           /\ out.unassigned_courses =
                 Cardinality({i \in 1..Len(exams) :
                                 exams[i].date = None \/ exams[i].timeslot = None})

\* a cell with two CourseExams and a third CourseExam that has no date or a
\* date outside the grid
C15_Witness ==
    /\ pc = "formatted"
    /\ \E r \in 1..Len(result[1].timetable) :
          \E t \in DOMAIN result[1].timetable[r].time_slots :
             Len(result[1].timetable[r].time_slots[t]) >= 2
    /\ \E i \in 1..Len(population[1].course_exams) :
          \/ /\ population[1].course_exams[i].date # None
             /\ \A r \in 1..Len(result[1].timetable) :
                   result[1].timetable[r].date # population[1].course_exams[i].date
          \/ population[1].course_exams[i].date = None

\* C16 - termination: for every input with at least 2 courses, non-empty room,
\* date and timeslot universes, population_size >= 1 and generations >= 1,
\* evolve runs at most `generations` generations and never raises.
C16_TerminatesWithoutRaising ==
    (/\ Len(courses) >= 2
     /\ rooms # <<>> /\ dates # <<>> /\ timeslots # <<>>
     /\ population_size >= 1
     /\ generations >= 1) =>
        /\ error = "none"
        /\ generation <= generations

\* C17 - population size invariant: after create_initial_population and after
\* every completed generation of evolve the population contains exactly
\* population_size Schedules, also when population_size minus the elite count
\* is odd (the surplus child of the last pair is truncated).
C17_PopulationSize ==
    pc \in {"loop", "check", "offspring", "returned", "responded"} =>
        Len(population) = population_size

\* a generation was completed with population_size minus the elite count odd
C17_Witness ==
    /\ pc = "loop"
    /\ generation >= 1
    /\ (population_size - EliteCount(population_size)) % 2 = 1
    /\ Len(population) = population_size

MaxFitness(pop) == MaxByFitness(pop).fitness

\* C18 - elites survive unchanged: in every generation that breeds, no pass
\* of the breeding loop (selection, crossover, mutation) alters any member of
\* the current population, the max(1, population_size // 10) fittest Schedules
\* of the current population are members of the next population with
\* identical assignments and fitness, and the maximum fitness of the
\* population does not decrease from one generation to the next.
C18_ElitesSurvive ==
    [][/\ (pc = "offspring" /\ pc' # "loop" => population' = population)
       /\ (pc = "offspring" /\ pc' = "loop" =>
              /\ \A i \in 1..Max(1, population_size \div 10) :
                    \E j \in 1..Len(population') :
                        population'[j] = SortedDesc(population)[i]
              /\ MaxFitness(population') >= MaxFitness(population))]_vars

\* a generation was completed (elite kept, children bred, population replaced)
\* and its population holds members less fit than its best
C18_Witness ==
    /\ pc = "loop"
    /\ generation >= 1
    /\ \E i \in 1..Len(population) : population[i].fitness < MaxFitness(population)

\* C19 - cached fitness is coherent: every Schedule that is a member of the
\* population (used for best-tracking, elitism sorting and tournament
\* selection), and the best_schedule that evolve keeps and returns, has a
\* cached fitness equal to what calculate_fitness computes from its current
\* assignments.
C19_CachedFitness ==
    \A s \in Range(population) \cup Range(best_schedule) :
        s.fitness = calculate_fitness(s.course_exams, dates)

\* best-tracking looks at a bred population whose members differ in fitness
C19_Witness ==
    /\ pc = "check"
    /\ generation >= 1
    /\ Cardinality(Fitnesses(population)) >= 2
    /\ best_schedule # <<>>

\* C20 - room-set invariant: after randomize and after any sequence of
\* crossover and mutate, every CourseExam of every Schedule has a room list of
\* pairwise distinct rooms of the room universe whose length is exactly
\* min(section count, room universe size); so the room-shortage penalty and
\* the room-efficiency bonus are the same for every Schedule of one evolve
\* run, fixed by the request.
C20_RoomSets ==
    \A s \in HeldSchedules :
        /\ \A i \in 1..Len(s.course_exams) :
              LET rs == s.course_exams[i].rooms IN
              /\ \A a, b \in 1..Len(rs) : a # b => rs[a] # rs[b]
              /\ Range(rs) \subseteq Range(rooms)
              /\ Len(rs) = Min(Len(s.course_exams[i].sections), Len(rooms))
        /\ RoomShortagePenalty(s.course_exams)
              = Len(courses) * Max(0, Len(sections) - Len(rooms)) * 50
        /\ RoomEfficiencyBonus(s.course_exams)
              = (IF Len(rooms) >= Len(sections) THEN 10 * Len(courses) ELSE 0)
        /\ \A other \in HeldSchedules :
              /\ RoomShortagePenalty(other.course_exams) = RoomShortagePenalty(s.course_exams)
              /\ RoomEfficiencyBonus(other.course_exams) = RoomEfficiencyBonus(s.course_exams)

\* after a bred generation, two members of the population give some course
\* different lists of two rooms
C20_Witness ==
    /\ pc = "loop"
    /\ generation >= 1
    /\ Len(sections) >= 2
    /\ Len(rooms) >= 2
    /\ \E i \in 1..Len(courses) :
          \E s1, s2 \in Range(population) :
             s1.course_exams[i].rooms # s2.course_exams[i].rooms

\* C21 - elitism in the /generate loop of routers/scheduler.py: the schedule
\* kept as next_gen[0] is not changed by the crossover and mutate calls that
\* build the rest of the generation, so the penalty of the best schedule
\* (population[0] after sorting) never increases from one sort to a later
\* one, and the schedule finally saved has the lowest penalty observed at any
\* sort.
C21_EliteCarriedUnchanged ==
    [][/\ (pc = "breed" =>
              \A k \in 1..Len(next_gen[1]) :
                  exam_dicts'[next_gen[1][k]] = exam_dicts[next_gen[1][k]])
       /\ (pc = "sort" /\ pc' = "breed" =>
              \A f \in produced : fitness(population'[1], exam_dicts') <= f)
       /\ (pc' = "saved" =>
              \A f \in produced' : fitness(best_schedule'[1], exam_dicts') <= f)]_vars

====
